---------------------------- MODULE Spec2Model ----------------------------
(***************************************************************************)
(* Microplastics detection service: the Flask API layer (backend/app.py),   *)
(* the detector (backend/detector.py) and its configuration                *)
(* (backend/config.py).                                                    *)
(*                                                                         *)
(* Units.  Python floats are modelled as scaled integers:                  *)
(*   - a raw confidence (rng.uniform output, boxes.conf) in units of 1e-5, *)
(*   - a rounded confidence (round(conf, 4)) in units of 1e-4,             *)
(*   - a demo fraction (cx, cy, bw, bh) in units of 1e-4,                  *)
(*   - a raw model coordinate (boxes.xyxy) in units of 1e-3 pixel,         *)
(*   - a rounded coordinate (round(x, 2)) in units of 1e-2 pixel.          *)
(***************************************************************************)
EXTENDS Integers, Sequences, FiniteSets, TLC

(***************************************************************************)
(* Bounds of the model.                                                    *)
(***************************************************************************)
\* number of HTTP requests the process accepts in one run
MaxReq == 3
\* number of requests the threaded server handles at the same time
MaxThreads == 2
\* longest detection list handed to _build_summary in SpecSummary
MaxDets == 4
\* largest class id a loaded model file may emit (the table has ids 0..3)
MaxClsId == 5

(***************************************************************************)
(* config.py                                                               *)
(***************************************************************************)
CLASS_NAMES ==
    (0 :> "Fragment") @@ (1 :> "Fiber") @@ (2 :> "Film") @@ (3 :> "Pellet")

CLASS_COLORS ==
    (0 :> <<255, 87, 51>>) @@ (1 :> <<51, 255, 87>>) @@
    (2 :> <<51, 87, 255>>) @@ (3 :> <<255, 215, 0>>)

ALLOWED_EXTENSIONS == {"png", "jpg", "jpeg", "bmp", "tiff", "webp"}

(***************************************************************************)
(* Python builtins used by the code.                                       *)
(***************************************************************************)
\* round(p/q) to the nearest integer unit, ties to even (Python 3 round()).
\* A Python float tie falls to the side its binary value lies on; the model
\* takes the decimal tie rule.
round(p, q) ==
    LET f == p \div q
        r == p - f * q
    IN  IF 2 * r < q THEN f
        ELSE IF 2 * r > q THEN f + 1
        ELSE IF f % 2 = 0 THEN f ELSE f + 1

\* str.lower() on the file-name segments the model uses
lower(s) ==
    CASE s = "PNG" -> "png"
      [] s = "JPG" -> "jpg"
      [] s = "EXE" -> "exe"
      [] OTHER -> s

\* f"class_{cls_id}"
FormatClass(cls_id) ==
    <<"class_0", "class_1", "class_2", "class_3", "class_4", "class_5",
      "class_6", "class_7", "class_8", "class_9">>[cls_id + 1]

\* dict.get(key, default)
DictGet(d, key, default) == IF key \in DOMAIN d THEN d[key] ELSE default

RECURSIVE SumSeq(_)
SumSeq(s) == IF s = <<>> THEN 0 ELSE Head(s) + SumSeq(Tail(s))

RECURSIVE MaxSeq(_)
MaxSeq(s) ==
    IF Len(s) = 1 THEN Head(s)
    ELSE LET m == MaxSeq(Tail(s)) IN IF Head(s) >= m THEN Head(s) ELSE m

(***************************************************************************)
(* detector.py: _build_summary                                             *)
(***************************************************************************)
\* counts[name] = counts.get(name, 0) + 1, over the detections in order
RECURSIVE CountNames(_, _)
CountNames(detections, counts) ==
    IF detections = <<>> THEN counts
    ELSE LET name == Head(detections).class_name
         IN  CountNames(Tail(detections),
                        (name :> (DictGet(counts, name, 0) + 1)) @@ counts)

\* a mean that divides by a constant instead of len(confidences)
MeanConfidence_fixed(confidences) ==
    IF confidences = <<>> THEN 0 ELSE round(SumSeq(confidences), 2)

\* round(float(np.mean(confidences)), 4) if confidences else 0.0
MeanConfidence(confidences) ==
    IF confidences = <<>> THEN 0
    ELSE round(SumSeq(confidences), Len(confidences))

\* round(float(np.max(confidences)), 4) if confidences else 0.0
MaxConfidence(confidences) ==
    IF confidences = <<>> THEN 0 ELSE round(MaxSeq(confidences), 1)

_build_summary(detections) ==
    LET confidences == [i \in 1..Len(detections) |-> detections[i].confidence]
    IN  [total_particles |-> Len(detections),
         counts_by_type  |-> CountNames(detections, <<>>),
         avg_confidence  |-> MeanConfidence(confidences),
         max_confidence  |-> MaxConfidence(confidences)]

(***************************************************************************)
(* detector.py: _annotate.  The JPEG bytes are a function of the source    *)
(* image and of what is drawn for each detection: the box, its colour      *)
(* (by class id) and its label.                                            *)
(***************************************************************************)
\* image.copy() decodes the pixel data: a truncated file raises here
Loadable(image) == image.fmt = "ok"

\* f'{det["class_name"]} {det["confidence"]:.0%}': the name and the integer percent
Label(det) == <<det.class_name, round(det.confidence, 100)>>

_annotate(image, detections) ==
    [src   |-> image.name,
     drawn |-> [i \in 1..Len(detections) |->
                  [box   |-> detections[i].bbox,
                   color |-> DictGet(CLASS_COLORS, detections[i].class_id,
                                     <<255, 255, 255>>),
                   label |-> Label(detections[i])]]]

(***************************************************************************)
(* detector.py: _demo_detect.  np.random.default_rng(42) is a fixed stream; *)
(* its values are not computed here: a draw is one loop iteration's six    *)
(* samples, taken from the ranges the code asks for.                       *)
(***************************************************************************)
\* rng.uniform(0.45, 0.97), in 1e-5
ConfLo == 45000
ConfHi == 97000
\* rng.uniform(0.1, 0.9, size=2), in 1e-4
CenterLo == 1000
CenterHi == 9000
\* rng.uniform(0.04, 0.15, size=2), in 1e-4
SizeLo == 400
SizeHi == 1500
\* rng.integers(3, 8): 3 <= n < 8
NLo == 3
NHiExcl == 8
\* rng.integers(0, 4): 0 <= cls_id < 4
ClsHiExcl == 4

\* one loop iteration's samples (lines 116-119)
Draw(cls, conf, cx, cy, bw, bh) ==
    [cls |-> cls, conf |-> conf, cx |-> cx, cy |-> cy, bw |-> bw, bh |-> bh]

\* the draws the model explores: the corners of the ranges the code asks for
DrawSet ==
    {Draw(0, ConfLo, CenterLo, CenterLo, SizeHi, SizeHi),
     Draw(ClsHiExcl - 1, ConfHi, CenterHi, CenterHi, SizeHi, SizeHi),
     Draw(1, ConfLo + 5, CenterLo, CenterHi, SizeLo, SizeLo),
     Draw(2, ConfHi - 5, CenterHi, CenterLo, SizeLo, SizeHi)}

\* a box whose half-size is taken as its full size: (cx - bw) instead of (cx - bw / 2)
DemoDetection_fullsize(d, w, h) ==
    [class_id   |-> d.cls,
     class_name |-> CLASS_NAMES[d.cls],
     confidence |-> round(d.conf, 10),
     bbox |-> [x1 |-> round((d.cx - d.bw) * w, 100),
               y1 |-> round((d.cy - d.bh) * h, 100),
               x2 |-> round((d.cx + d.bw) * w, 100),
               y2 |-> round((d.cy + d.bh) * h, 100)]]

\* the detection one loop iteration appends (lines 116-132)
DemoDetection(d, w, h) ==
    [class_id   |-> d.cls,
     class_name |-> CLASS_NAMES[d.cls],
     confidence |-> round(d.conf, 10),
     bbox |-> [x1 |-> round((2 * d.cx - d.bw) * w, 200),
               y1 |-> round((2 * d.cy - d.bh) * h, 200),
               x2 |-> round((2 * d.cx + d.bw) * w, 200),
               y2 |-> round((2 * d.cy + d.bh) * h, 200)]]

\* the loop of _demo_detect over a whole stream: n = len(stream) iterations
DemoDetections(stream, w, h) ==
    [i \in 1..Len(stream) |-> DemoDetection(stream[i], w, h)]

(***************************************************************************)
(* detector.py: _real_detect.  The loaded model is opaque: a fixed function *)
(* from the image to raw boxes (class id, confidence, corners).            *)
(***************************************************************************)
RawBox(cls, conf, x1, y1, x2, y2) ==
    [cls |-> cls, conf |-> conf, xyxy |-> <<x1, y1, x2, y2>>]

\* a real path that names every class by its placeholder
RealDetection_unnamed(b) ==
    [class_id   |-> b.cls,
     class_name |-> FormatClass(b.cls),
     confidence |-> round(b.conf, 10),
     bbox |-> [x1 |-> round(b.xyxy[1], 10), y1 |-> round(b.xyxy[2], 10),
               x2 |-> round(b.xyxy[3], 10), y2 |-> round(b.xyxy[4], 10)]]

\* the detection appended for one returned box (lines 79-94)
RealDetection(b) ==
    [class_id   |-> b.cls,
     class_name |-> DictGet(CLASS_NAMES, b.cls, FormatClass(b.cls)),
     confidence |-> round(b.conf, 10),
     bbox |-> [x1 |-> round(b.xyxy[1], 10), y1 |-> round(b.xyxy[2], 10),
               x2 |-> round(b.xyxy[3], 10), y2 |-> round(b.xyxy[4], 10)]]

RealDetections(boxes) == [i \in 1..Len(boxes) |-> RealDetection(boxes[i])]

(***************************************************************************)
(* The process's environment: the files a client can send, the model files *)
(* that can sit at MODEL_PATH, the streams seed 42 can stand for.          *)
(***************************************************************************)
\* uploaded bytes: a complete image, a file cut short after its header, and
\* bytes that are no image
FileA == [name |-> "A", fmt |-> "ok", w |-> 640, h |-> 640]
FileB == [name |-> "B", fmt |-> "ok", w |-> 3, h |-> 1]
FileT == [name |-> "T", fmt |-> "truncated", w |-> 640, h |-> 480]
FileG == [name |-> "G", fmt |-> "garbage", w |-> 0, h |-> 0]

\* self.model is None
NoModel == [name |-> "None"]

\* YOLO(model_path) for a file whose head emits class ids up to c
Yolo(c) ==
    [name |-> "YOLO", nc |-> c + 1,
     predict |->
        ("A" :> <<RawBox(c, 91235, 10004, 20015, 110996, 90025),
                  RawBox(0, 30001, 0, 0, 639999, 639999),
                  RawBox(c, 30000, 5, 5, 15, 15)>>)
        @@ ("B" :> IF c \in DOMAIN CLASS_NAMES THEN <<>>
                   ELSE <<RawBox(c - 1, 25005, 0, 0, 2995, 995)>>)]

\* a model trained on the 4 classes, and one that is not (a mismatched file)
ModelFiles == {Yolo(1), Yolo(MaxClsId)}

\* what np.random.default_rng(42) can yield: n in 3..7 draws
SeedStreams ==
    {<<Draw(0, ConfLo, CenterLo, CenterLo, SizeHi, SizeHi),
       Draw(ClsHiExcl - 1, ConfHi, CenterHi, CenterHi, SizeHi, SizeHi),
       Draw(1, ConfLo + 5, CenterLo, CenterHi, SizeLo, SizeLo)>>,
     <<Draw(2, ConfHi - 5, CenterHi, CenterLo, SizeLo, SizeHi),
       Draw(2, ConfLo, 5000, 5000, SizeLo, SizeLo),
       Draw(0, ConfHi, CenterLo, CenterLo, SizeHi, SizeHi),
       Draw(1, 70000, 5000, CenterHi, SizeHi, SizeLo),
       Draw(ClsHiExcl - 1, ConfLo + 5, CenterHi, 5000, SizeLo, SizeHi),
       Draw(0, 70000, 2500, 7500, 1000, 1000),
       Draw(1, ConfHi - 5, 7500, 2500, 1000, SizeHi)>>}

(***************************************************************************)
(* Requests.  A file name is its list of "."-separated segments ("" is     *)
(* <<"">>); a base64 text is its payload and whether it is well padded.    *)
(***************************************************************************)
Multipart(filename, data) ==
    [enc |-> "file", filename |-> filename, padded |-> TRUE, data |-> data]
Base64Json(padded, data) ==
    [enc |-> "json", filename |-> <<"">>, padded |-> padded, data |-> data]
NoImage ==
    [enc |-> "none", filename |-> <<"">>, padded |-> TRUE, data |-> FileG]

PredictInputs ==
    {NoImage,
     Multipart(<<"">>, FileA),
     Multipart(<<"x", "exe">>, FileA),
     Multipart(<<"noext">>, FileA),
     Multipart(<<"sample", "jpg">>, FileA),
     Multipart(<<"SCAN", "PNG">>, FileB),
     Multipart(<<"sample", "jpg">>, FileG),
     Multipart(<<"sample", "jpg">>, FileT),
     Base64Json(TRUE, FileA),
     Base64Json(TRUE, FileB),
     Base64Json(TRUE, FileG),
     Base64Json(TRUE, FileT),
     Base64Json(FALSE, FileA)}

\* base64.b64encode / base64.b64decode
b64encode(bytes) == [padded |-> TRUE, data |-> bytes]
b64decodeRaises(text) == ~text.padded
b64decode(text) == text.data

\* Image.open reads the header only; bytes that are no image raise
ImageOpenRaises(data) == data.fmt = "garbage"
ImageOpen(data) == [name |-> data.name, size |-> <<data.w, data.h>>, fmt |-> data.fmt]

\* app.py: _allowed_file
_allowed_file(filename) ==
    /\ Len(filename) > 1
    /\ lower(filename[Len(filename)]) \in ALLOWED_EXTENSIONS


\* app.py: predict, lines 93-110: what the request is answered with before
\* detection (status 0: not answered, the image goes on to the detector)
Validate(input) ==
    LET go(image) == [status |-> 0, error |-> "", image |-> image]
        stop(status, error) ==
            [status |-> status, error |-> error, image |-> ImageOpen(FileG)]
    IN  IF input.enc = "file"
        THEN IF input.filename = <<"">> THEN stop(400, "No file selected")
             ELSE IF ~_allowed_file(input.filename)
                  THEN stop(400, "Unsupported file type")
             \* Image.open(file.stream) is outside any try: the exception
             \* leaves the view and Flask answers 500
             ELSE IF ImageOpenRaises(input.data)
                  THEN stop(500, "Internal Server Error")
             ELSE go(ImageOpen(input.data))
        ELSE IF input.enc = "json"
        THEN IF b64decodeRaises(input) \/ ImageOpenRaises(b64decode(input))
             THEN stop(400, "Invalid base64 image")
             ELSE go(ImageOpen(b64decode(input)))
        ELSE stop(400, "No image provided")

\* a generator made once at import and shared by the requests: each call
\* goes on where the one before stopped
default_rng_shared(stream, calls) ==
    [i \in 1..Len(stream) |-> stream[((i - 1 + calls) % Len(stream)) + 1]]

\* np.random.default_rng(42) inside _demo_detect: a fresh generator per call,
\* whatever number of calls went before
default_rng(stream, calls) == stream

_real_detect(m, image) ==
    LET detections == RealDetections(m.predict[image.name])
    IN  [detections      |-> detections,
         summary         |-> _build_summary(detections),
         annotated_image |-> _annotate(image, detections)]

_demo_detect(rng, image) ==
    LET demo_dets == DemoDetections(rng, image.size[1], image.size[2])
    IN  [detections      |-> demo_dets,
         summary         |-> [demo_mode |-> TRUE] @@ _build_summary(demo_dets),
         annotated_image |-> _annotate(image, demo_dets)]

(***************************************************************************)
(* State.                                                                  *)
(***************************************************************************)
VARIABLES
    model,           \* detector.model: NoModel or the loaded YOLO object
    rng42,           \* the stream np.random.default_rng(42) yields
    last_annotated,  \* app._last_annotated: a dict, empty or with key "bytes"
    slot,            \* slot[t]: the request handler thread t runs, or ran last
    accepted,        \* number of requests accepted so far
    calls,           \* history: number of detector.detect() calls so far
    lastWrite,       \* history: the last run of line 117
    lastServed,      \* history: the last predict answered with 200
    demo_run,        \* one run of the loop of _demo_detect (SpecDemo)
    summary_run      \* one call of _build_summary (SpecSummary)

vars == <<model, rng42, last_annotated, slot, accepted, calls, lastWrite,
          lastServed, demo_run, summary_run>>

Threads == 1..MaxThreads

NoResult ==
    [detections |-> <<>>, summary |-> _build_summary(<<>>),
     annotated_image |-> _annotate(ImageOpen(FileG), <<>>)]

\* a thread's locals: the request it got, the
\* opened image, whether and how detect() was called, its result, the response
IdleSlot ==
    [pc |-> "idle", kind |-> "-", input |-> NoImage,
     image |-> ImageOpen(FileG), path |-> "-", called |-> FALSE,
     result |-> NoResult, resp |-> [status |-> 0, body |-> "-"]]

NoWrite == [any |-> FALSE, bytes |-> NoResult.annotated_image, raced |-> FALSE]
NoServed == [any |-> FALSE, bytes |-> NoResult.annotated_image]

DemoOff == [pc |-> "off", w |-> 1, h |-> 1, n |-> NLo, demo_dets |-> <<>>]
SummaryOff == [pc |-> "off", detections |-> <<>>, summary |-> _build_summary(<<>>)]

\* the state once `detector = MicroplasticsDetector()` and
\* `_last_annotated = {}` have run
Init ==
    /\ \/ model = NoModel /\ rng42 \in SeedStreams
       \* a loaded model never reads the stream: one stands for all
       \/ model \in ModelFiles /\ rng42 = CHOOSE st \in SeedStreams : Len(st) = NLo
    /\ last_annotated = <<>>
    /\ slot = [t \in Threads |-> IdleSlot]
    /\ accepted = 0
    /\ calls = 0
    /\ lastWrite = NoWrite
    /\ lastServed = NoServed
    /\ demo_run = DemoOff
    /\ summary_run = SummaryOff

\* the threads handling a request
InFlight == {q \in Threads : slot[q].pc \notin {"idle", "done"}}

\* the next request goes to thread t: the first free one
Accept(t) ==
    /\ accepted < MaxReq
    /\ t \notin InFlight
    /\ \A q \in Threads : q < t => q \in InFlight

\* the locals of thread t as it takes the next request
Fresh(kind) == [IdleSlot EXCEPT !.kind = kind]

Answer(s, status, body) ==
    [s EXCEPT !.pc = "done", !.resp = [status |-> status, body |-> body]]

(***************************************************************************)
(* app.py: the routes.                                                     *)
(***************************************************************************)
\* a health check that reports demo_mode from a flag set once at import
health_stale(t) ==
    /\ Accept(t)
    /\ accepted' = accepted + 1
    /\ slot' = [slot EXCEPT ![t] =
                  Answer(Fresh("health"), 200,
                         [status |-> "ok",
                          model_loaded |-> model # NoModel,
                          demo_mode |-> TRUE])]
    /\ UNCHANGED <<model, rng42, last_annotated, calls, lastWrite, lastServed,
                   demo_run, summary_run>>

\* GET /api/health
health(t) ==
    /\ Accept(t)
    /\ accepted' = accepted + 1
    /\ slot' = [slot EXCEPT ![t] =
                  Answer(Fresh("health"), 200,
                         [status |-> "ok",
                          model_loaded |-> model # NoModel,
                          demo_mode |-> model = NoModel])]
    /\ UNCHANGED <<model, rng42, last_annotated, calls, lastWrite, lastServed,
                   demo_run, summary_run>>

\* GET /api/classes
get_classes(t) ==
    /\ Accept(t)
    /\ accepted' = accepted + 1
    /\ slot' = [slot EXCEPT ![t] =
                  Answer(Fresh("classes"), 200,
                         [i \in 1..Cardinality(DOMAIN CLASS_NAMES) |->
                             [id |-> i - 1, name |-> CLASS_NAMES[i - 1]]])]
    /\ UNCHANGED <<model, rng42, last_annotated, calls, lastWrite, lastServed,
                   demo_run, summary_run>>

\* POST /api/predict, lines 90-110: read the request, validate, open the image
predict_validate(t) ==
    /\ Accept(t)
    /\ accepted' = accepted + 1
    /\ \E input \in PredictInputs :
         LET v == Validate(input)
             s == [Fresh("predict") EXCEPT !.input = input]
         IN  slot' = [slot EXCEPT ![t] =
                 IF v.status = 0
                 THEN [s EXCEPT !.pc = "detect", !.image = v.image]
                 ELSE Answer(s, v.status, v.error)]
    /\ UNCHANGED <<model, rng42, last_annotated, calls, lastWrite, lastServed,
                   demo_run, summary_run>>

\* detector.py: detect (lines 58-60)
detect(m, rng, image) ==
    IF m # NoModel THEN _real_detect(m, image) ELSE _demo_detect(rng, image)

\* a detector that falls back to demo mode once the model has raised
predict_detect_fallback(t) ==
    /\ slot[t].pc = "detect"
    /\ calls' = calls + 1
    /\ model' = IF Loadable(slot[t].image) THEN model ELSE NoModel
    /\ slot' = [slot EXCEPT ![t] =
                  IF Loadable(slot[t].image)
                  THEN [@ EXCEPT !.pc = "cache", !.called = TRUE,
                                 !.path = IF model # NoModel THEN "real" ELSE "demo",
                                 !.result = detect(model, rng42, slot[t].image)]
                  ELSE [Answer(slot[t], 500, "Internal Server Error")
                        EXCEPT !.called = TRUE,
                               !.path = IF model # NoModel THEN "real" ELSE "demo"]]
    /\ UNCHANGED <<rng42, last_annotated, accepted, lastWrite, lastServed,
                   demo_run, summary_run>>

\* a handler that stores the undrawn image before detection has returned
predict_detect_early(t) ==
    /\ slot[t].pc = "detect"
    /\ calls' = calls + 1
    /\ last_annotated' = ("bytes" :> _annotate(slot[t].image, <<>>))
    /\ slot' = [slot EXCEPT ![t] =
                  IF Loadable(slot[t].image)
                  THEN [@ EXCEPT !.pc = "cache", !.called = TRUE,
                                 !.path = IF model # NoModel THEN "real" ELSE "demo",
                                 !.result = detect(model, rng42, slot[t].image)]
                  ELSE [Answer(slot[t], 500, "Internal Server Error")
                        EXCEPT !.called = TRUE,
                               !.path = IF model # NoModel THEN "real" ELSE "demo"]]
    /\ UNCHANGED <<model, rng42, accepted, lastWrite, lastServed,
                   demo_run, summary_run>>

\* POST /api/predict, line 114: detector.detect(image).  Decoding the pixels
\* of a truncated file raises inside the detector, in either mode; the
\* exception leaves the view and Flask answers 500.
predict_detect(t) ==
    /\ slot[t].pc = "detect"
    /\ calls' = calls + 1
    /\ LET image == slot[t].image
           path == IF model # NoModel THEN "real" ELSE "demo"
       IN  slot' = [slot EXCEPT ![t] =
               IF Loadable(image)
               THEN [@ EXCEPT !.pc = "cache", !.called = TRUE, !.path = path,
                              !.result = detect(model, default_rng(rng42, calls),
                                                image)]
               ELSE [Answer(slot[t], 500, "Internal Server Error")
                     EXCEPT !.called = TRUE, !.path = path]]
    /\ UNCHANGED <<model, rng42, last_annotated, accepted, lastWrite, lastServed,
                   demo_run, summary_run>>

\* history of line 117: raced when another predict that has already stored
\* its own image is still in flight
Written(t) ==
    [any |-> TRUE,
     bytes |-> slot[t].result.annotated_image,
     raced |-> \E q \in Threads \ {t} :
                  /\ slot[q].pc = "respond"
                  /\ slot[q].result.annotated_image
                        # slot[t].result.annotated_image]

\* a store that is not one assignment: the new source with the old drawing
predict_cache_torn(t) ==
    /\ slot[t].pc = "cache"
    /\ last_annotated' =
          ("bytes" :>
             IF "bytes" \in DOMAIN last_annotated
             THEN [slot[t].result.annotated_image
                   EXCEPT !.drawn = last_annotated["bytes"].drawn]
             ELSE slot[t].result.annotated_image)
    /\ lastWrite' = Written(t)
    /\ slot' = [slot EXCEPT ![t].pc = "respond"]
    /\ UNCHANGED <<model, rng42, accepted, calls, lastServed, demo_run, summary_run>>

\* a store that keeps the first image: _last_annotated.setdefault("bytes", ...)
predict_cache_first(t) ==
    /\ slot[t].pc = "cache"
    /\ last_annotated' =
          last_annotated @@ ("bytes" :> slot[t].result.annotated_image)
    /\ lastWrite' = Written(t)
    /\ slot' = [slot EXCEPT ![t].pc = "respond"]
    /\ UNCHANGED <<model, rng42, accepted, calls, lastServed, demo_run, summary_run>>

\* POST /api/predict, line 117: _last_annotated["bytes"] = result["annotated_image"]
predict_cache(t) ==
    /\ slot[t].pc = "cache"
    /\ last_annotated' =
          ("bytes" :> slot[t].result.annotated_image) @@ last_annotated
    /\ lastWrite' = Written(t)
    /\ slot' = [slot EXCEPT ![t].pc = "respond"]
    /\ UNCHANGED <<model, rng42, accepted, calls, lastServed, demo_run, summary_run>>

\* POST /api/predict, lines 120-134: build and return the JSON response
\* (request_id is a fresh uuid prefix, used for logging only: not modelled)
predict_respond(t) ==
    /\ slot[t].pc = "respond"
    /\ slot' = [slot EXCEPT ![t] =
                  Answer(slot[t], 200,
                         [detections |-> slot[t].result.detections,
                          summary |-> slot[t].result.summary,
                          annotated_image_base64 |->
                              b64encode(slot[t].result.annotated_image)])]
    /\ lastServed' = [any |-> TRUE,
                      bytes |-> slot[t].result.annotated_image]
    /\ UNCHANGED <<model, rng42, last_annotated, accepted, calls, lastWrite,
                   demo_run, summary_run>>

\* GET /api/predict/annotated, line 140: the test for the key
get_annotated_check(t) ==
    /\ Accept(t)
    /\ accepted' = accepted + 1
    /\ slot' = [slot EXCEPT ![t] =
                  IF "bytes" \notin DOMAIN last_annotated
                  THEN Answer(Fresh("annotated"), 404, "No annotated image available")
                  ELSE [Fresh("annotated") EXCEPT !.pc = "send"]]
    /\ UNCHANGED <<model, rng42, last_annotated, calls, lastWrite, lastServed,
                   demo_run, summary_run>>

\* GET /api/predict/annotated, lines 142-146: read the slot and send it
get_annotated_send(t) ==
    /\ slot[t].pc = "send"
    /\ slot' = [slot EXCEPT ![t] = Answer(slot[t], 200, last_annotated["bytes"])]
    /\ UNCHANGED <<model, rng42, last_annotated, accepted, calls, lastWrite,
                   lastServed, demo_run, summary_run>>

Handler(t) ==
    \/ health(t)
    \/ get_classes(t)
    \/ predict_validate(t)
    \/ predict_detect(t)
    \/ predict_cache(t)
    \/ predict_respond(t)
    \/ get_annotated_check(t)
    \/ get_annotated_send(t)

\* the server handles requests concurrently (Flask's threaded server)
Next == \E t \in Threads : Handler(t)

Spec == Init /\ [][Next]_vars

\* one request at a time: a handler steps only while no other is in flight
Alone(t) == InFlight \subseteq {t}

NextSeq ==
    \E t \in Threads :
        \/ Alone(t) /\ health(t)
        \/ Alone(t) /\ get_classes(t)
        \/ Alone(t) /\ predict_validate(t)
        \/ Alone(t) /\ predict_detect(t)
        \/ Alone(t) /\ predict_cache(t)
        \/ Alone(t) /\ predict_respond(t)
        \/ Alone(t) /\ get_annotated_check(t)
        \/ Alone(t) /\ get_annotated_send(t)

SpecSeq == Init /\ [][NextSeq]_vars

(***************************************************************************)
(* _demo_detect, one loop iteration at a time, for any image size and any  *)
(* draws.                                                                  *)
(***************************************************************************)
\* image.size of the images tried: the smallest, a flat one, a usual one
ImageSizes == {<<1, 1>>, <<3, 1>>, <<640, 480>>}

\* lines 110-114: w, h = image.size; n = rng.integers(3, 8); demo_dets = []
DemoInit ==
    /\ model = NoModel
    /\ rng42 = CHOOSE st \in SeedStreams : Len(st) = NLo
    /\ last_annotated = <<>>
    /\ slot = [t \in Threads |-> IdleSlot]
    /\ accepted = 0
    /\ calls = 0
    /\ lastWrite = NoWrite
    /\ lastServed = NoServed
    /\ summary_run = SummaryOff
    /\ \E size \in ImageSizes, n \in NLo..(NHiExcl - 1) :
          demo_run = [pc |-> "loop", w |-> size[1], h |-> size[2], n |-> n,
                      demo_dets |-> <<>>]

\* lines 115-132: one iteration of `for _ in range(n)`
DemoLoop ==
    /\ demo_run.pc = "loop"
    /\ Len(demo_run.demo_dets) < demo_run.n
    /\ \E d \in DrawSet :
          demo_run' = [demo_run EXCEPT !.demo_dets =
                          Append(@, DemoDetection(d, demo_run.w, demo_run.h))]
    /\ UNCHANGED <<model, rng42, last_annotated, slot, accepted, calls,
                   lastWrite, lastServed, summary_run>>

\* lines 134-142: the loop is over, the detections are returned
DemoReturn ==
    /\ demo_run.pc = "loop"
    /\ Len(demo_run.demo_dets) = demo_run.n
    /\ demo_run' = [demo_run EXCEPT !.pc = "returned"]
    /\ UNCHANGED <<model, rng42, last_annotated, slot, accepted, calls,
                   lastWrite, lastServed, summary_run>>

DemoNext == DemoLoop \/ DemoReturn

SpecDemo == DemoInit /\ [][DemoNext]_vars

(***************************************************************************)
(* _build_summary on any detection list of up to MaxDets detections.       *)
(***************************************************************************)
\* detections of both paths: known and foreign classes, equal and unequal
\* confidences
SummaryDets ==
    {DemoDetection(d, 640, 480) : d \in DrawSet}
    \cup {RealDetection(RawBox(MaxClsId, 91235, 10004, 20015, 110996, 90025)),
          RealDetection(RawBox(0, 45010, 0, 0, 2995, 995))}

SummaryInit ==
    /\ model = NoModel
    /\ rng42 = CHOOSE st \in SeedStreams : Len(st) = NLo
    /\ last_annotated = <<>>
    /\ slot = [t \in Threads |-> IdleSlot]
    /\ accepted = 0
    /\ calls = 0
    /\ lastWrite = NoWrite
    /\ lastServed = NoServed
    /\ demo_run = DemoOff
    /\ summary_run = [pc |-> "input", detections |-> <<>>,
                      summary |-> _build_summary(<<>>)]

\* the caller's list grows by one detection
SummaryInput ==
    /\ summary_run.pc = "input"
    /\ Len(summary_run.detections) < MaxDets
    /\ \E det \in SummaryDets :
          summary_run' = [summary_run EXCEPT !.detections = Append(@, det)]
    /\ UNCHANGED <<model, rng42, last_annotated, slot, accepted, calls,
                   lastWrite, lastServed, demo_run>>

\* summary = self._build_summary(detections)
SummaryBuild ==
    /\ summary_run.pc = "input"
    /\ summary_run' = [summary_run EXCEPT
                          !.pc = "built",
                          !.summary = _build_summary(summary_run.detections)]
    /\ UNCHANGED <<model, rng42, last_annotated, slot, accepted, calls,
                   lastWrite, lastServed, demo_run>>

SummaryNext == SummaryInput \/ SummaryBuild

SpecSummary == SummaryInit /\ [][SummaryNext]_vars

(***************************************************************************)
(* Properties.                                                             *)
(***************************************************************************)
\* thread t takes a request of this kind in this step
TakesNow(t, kind) ==
    /\ Accept(t)
    /\ accepted' = accepted + 1
    /\ slot'[t].kind = kind

\* thread t answers its request in this step
AnswersNow(t, kind) ==
    /\ slot'[t].pc = "done"
    /\ slot'[t].kind = kind
    /\ \/ TakesNow(t, kind)
       \/ slot[t].pc \notin {"idle", "done"}

Served(t, kind, status) ==
    /\ slot[t].pc = "done"
    /\ slot[t].kind = kind
    /\ slot[t].resp.status = status

\* C1: with requests handled one after the other, GET /api/predict/annotated
\* answers 404 exactly when no predict has been answered with 200 yet, and
\* otherwise 200 with the annotated bytes of the last predict answered 200.
C1_AnnotatedIsLastServed ==
    [][\A t \in Threads :
          AnswersNow(t, "annotated") =>
             /\ slot'[t].resp.status = 404 <=> ~lastServed.any
             /\ slot'[t].resp.status # 404 =>
                   /\ slot'[t].resp.status = 200
                   /\ slot'[t].resp.body = lastServed.bytes]_vars

\* the third request is a GET, answered with the image of the last predict
\* served, an annotated copy of file B with boxes drawn
C1_Witness ==
    /\ accepted = 3
    /\ InFlight = {}
    /\ \E t \in Threads :
          /\ Served(t, "annotated", 200)
          /\ slot[t].resp.body = lastServed.bytes
          /\ slot[t].resp.body.src = "B"
          /\ Len(slot[t].resp.body.drawn) > 0

\* C2: under concurrent handlers the slot holds exactly the annotated output
\* of the predict whose store ran last, and a GET sends exactly that.
C2_LastWriterWins ==
    [][/\ "bytes" \in DOMAIN last_annotated' =>
             /\ lastWrite'.any
             /\ last_annotated'["bytes"] = lastWrite'.bytes
       /\ \A t \in Threads :
             (slot[t].pc = "send" /\ slot'[t].pc = "done") =>
                /\ slot'[t].resp.status = 200
                /\ slot'[t].resp.body = lastWrite.bytes]_vars

\* two predicts overlapped, the one that stored last did so after the other
\* had stored a different image; both are over and a GET got the last store
C2_Witness ==
    /\ InFlight = {}
    /\ lastWrite.raced
    /\ \E t, u \in Threads :
          /\ Served(t, "annotated", 200)
          /\ slot[t].resp.body = lastWrite.bytes
          /\ Served(u, "predict", 200)

\* the inputs the error taxonomy calls bad
BadInput(input) ==
    \/ input.enc = "none"
    \/ /\ input.enc = "file"
       /\ \/ input.filename = <<"">>
          \/ Len(input.filename) < 2
          \/ lower(input.filename[Len(input.filename)]) \notin ALLOWED_EXTENSIONS
          \/ input.data.fmt = "garbage"
    \/ /\ input.enc = "json"
       /\ (~input.padded \/ input.data.fmt = "garbage")

\* C3: every bad input to POST /api/predict is answered 400 without a call
\* of detect().
C3_BadInputIs400 ==
    \A t \in Threads :
       (slot[t].kind = "predict" /\ BadInput(slot[t].input)) =>
          /\ slot[t].pc = "done"
          /\ slot[t].resp.status = 400
          /\ ~slot[t].called

\* C4: detector.model never changes, and every detect() call takes the path
\* that value selects.
C4_ModeIsFixed ==
    [][/\ model' = model
       /\ \A t \in Threads :
             (slot[t].pc = "detect" /\ slot'[t].pc # "detect") =>
                /\ slot'[t].called
                /\ slot'[t].path = IF model = NoModel THEN "demo" ELSE "real"]_vars

\* in real mode one detect() has raised and another has returned
C4_Witness ==
    /\ model # NoModel
    /\ \E t, u \in Threads :
          /\ Served(t, "predict", 500) /\ slot[t].called /\ slot[t].path = "real"
          /\ Served(u, "predict", 200) /\ slot[u].path = "real"

\* C5 as stated: every detection returned has a class_id of the table and
\* the table's name for it.
C5_ClassIdInTable ==
    \A t \in Threads :
       Served(t, "predict", 200) =>
          \A i \in 1..Len(slot[t].resp.body.detections) :
             LET det == slot[t].resp.body.detections[i]
             IN  /\ det.class_id \in {0, 1, 2, 3}
                 /\ det.class_name = CLASS_NAMES[det.class_id]

\* C5 (amended): a returned detection whose class_id is in the table has the
\* table's name; one whose class_id is not comes from the real path and is
\* named class_<id>; demo detections always have a class_id of the table.
C5_ClassNameOrPlaceholder ==
    \A t \in Threads :
       Served(t, "predict", 200) =>
          \A i \in 1..Len(slot[t].resp.body.detections) :
             LET det == slot[t].resp.body.detections[i]
             IN  /\ det.class_id \in {0, 1, 2, 3} =>
                       det.class_name =
                          <<"Fragment", "Fiber", "Film", "Pellet">>[det.class_id + 1]
                 /\ det.class_id \notin {0, 1, 2, 3} =>
                       /\ slot[t].path = "real"
                       /\ det.class_name = FormatClass(det.class_id)

\* a real-mode response with a foreign class and one with a known class
C5_Witness ==
    \E t \in Threads :
       /\ Served(t, "predict", 200)
       /\ slot[t].path = "real"
       /\ \E i, j \in 1..Len(slot[t].resp.body.detections) :
             /\ slot[t].resp.body.detections[i].class_id > 3
             /\ slot[t].resp.body.detections[j].class_id = 0

\* C6: the demo path returns 3..7 detections, each with a class id in 0..3,
\* a confidence in [0.45, 0.97] and a box inside the image with x1 < x2 and
\* y1 < y2.
C6_DemoDetectionsInRange ==
    demo_run.pc = "returned" =>
       /\ Len(demo_run.demo_dets) \in 3..7
       /\ \A i \in 1..Len(demo_run.demo_dets) :
             LET det == demo_run.demo_dets[i]
                 b == det.bbox
             IN  /\ det.class_id \in {0, 1, 2, 3}
                 /\ 4500 <= det.confidence /\ det.confidence <= 9700
                 /\ 0 <= b.x1 /\ b.x1 < b.x2 /\ b.x2 <= 100 * demo_run.w
                 /\ 0 <= b.y1 /\ b.y1 < b.y2 /\ b.y2 <= 100 * demo_run.h

\* seven detections on a 1x1 image, the smallest box and the extreme
\* confidences among them
C6_Witness ==
    /\ demo_run.pc = "returned"
    /\ demo_run.w = 1 /\ demo_run.h = 1
    /\ Len(demo_run.demo_dets) = 7
    /\ \E i, j \in 1..7 :
          /\ demo_run.demo_dets[i].confidence = 4500
          /\ demo_run.demo_dets[j].confidence = 9700
          /\ demo_run.demo_dets[i].bbox.x2 - demo_run.demo_dets[i].bbox.x1 <= 15

RECURSIVE SumOver(_, _)
SumOver(f, S) ==
    IF S = {} THEN 0
    ELSE LET x == CHOOSE y \in S : TRUE IN f[x] + SumOver(f, S \ {x})

\* C7: the summary counts the detections, per class name and in total, and
\* its avg_confidence and max_confidence are 0 for the empty list and
\* otherwise the mean (to the nearest 1e-4) and the maximum.
C7_SummaryMatchesDetections ==
    summary_run.pc = "built" =>
       LET dets == summary_run.detections
           sm == summary_run.summary
           n == Len(dets)
           total == SumSeq([i \in 1..n |-> dets[i].confidence])
       IN  /\ sm.total_particles = n
           /\ DOMAIN sm.counts_by_type = {dets[i].class_name : i \in 1..n}
           /\ \A name \in DOMAIN sm.counts_by_type :
                 sm.counts_by_type[name] =
                    Cardinality({i \in 1..n : dets[i].class_name = name})
           /\ SumOver(sm.counts_by_type, DOMAIN sm.counts_by_type) = sm.total_particles
           /\ n = 0 => sm.avg_confidence = 0 /\ sm.max_confidence = 0
           /\ n > 0 =>
                 /\ \E i \in 1..n : sm.max_confidence = dets[i].confidence
                 /\ \A i \in 1..n : sm.max_confidence >= dets[i].confidence
                 /\ 2 * (sm.avg_confidence * n - total) <= n
                 /\ 2 * (total - sm.avg_confidence * n) <= n

\* a list with a repeated class, a foreign class and a mean that is no
\* multiple of 1e-4
C7_Witness ==
    /\ summary_run.pc = "built"
    /\ Len(summary_run.detections) = 3
    /\ summary_run.summary.total_particles = 3
    /\ Cardinality(DOMAIN summary_run.summary.counts_by_type) = 2
    /\ \E i \in 1..3 : summary_run.detections[i].class_id > 3
    /\ SumSeq([i \in 1..3 |-> summary_run.detections[i].confidence]) % 3 # 0

\* C8: a health check reports model_loaded and demo_mode as negations of
\* each other, model_loaded being whether a model is loaded, and changes
\* neither the detector nor the last-annotated slot.
C8_HealthIsPureRead ==
    [][\A t \in Threads :
          TakesNow(t, "health") =>
             /\ slot'[t].resp.status = 200
             /\ slot'[t].resp.body.model_loaded = ~slot'[t].resp.body.demo_mode
             /\ slot'[t].resp.body.model_loaded = (model # NoModel)
             /\ model' = model
             /\ last_annotated' = last_annotated]_vars

\* a health check answered in real mode while the slot holds an image
C8_Witness ==
    /\ "bytes" \in DOMAIN last_annotated
    /\ \E t \in Threads :
          /\ Served(t, "health", 200)
          /\ slot[t].resp.body.model_loaded
          /\ ~slot[t].resp.body.demo_mode

\* C9: two predicts answered 200 for the same image return the same
\* detections and summary, whatever the encoding of either and whatever was
\* served before; in demo mode so do two predicts on images of one size.
C9_EncodingAndHistoryIndependent ==
    \A t, u \in Threads :
       (Served(t, "predict", 200) /\ Served(u, "predict", 200)) =>
          LET same == \/ slot[t].input.data = slot[u].input.data
                      \/ /\ model = NoModel
                         /\ slot[t].input.data.w = slot[u].input.data.w
                         /\ slot[t].input.data.h = slot[u].input.data.h
          IN  same =>
                 /\ slot[t].resp.body.detections = slot[u].resp.body.detections
                 /\ slot[t].resp.body.summary = slot[u].resp.body.summary

\* the same image sent as a file and as base64, after an earlier detect()
\* call, both answered 200 in demo mode
C9_Witness ==
    /\ model = NoModel
    /\ calls = 3
    /\ \E t, u \in Threads :
          /\ Served(t, "predict", 200) /\ Served(u, "predict", 200)
          /\ slot[t].input.enc = "file" /\ slot[u].input.enc = "json"
          /\ slot[t].input.data = slot[u].input.data

\* C10: a predict that is not answered 200 leaves the slot as it is: the
\* slot changes only in the store of a handler whose detect() has returned,
\* and that handler is then answered 200.
C10_FailedPredictKeepsSlot ==
    [][/\ \A t \in Threads :
             (AnswersNow(t, "predict") /\ slot'[t].resp.status # 200) =>
                last_annotated' = last_annotated
       /\ last_annotated' # last_annotated =>
             \E t \in Threads :
                /\ slot[t].pc = "cache" /\ slot[t].called
                /\ slot'[t].pc = "respond"
       /\ \A t \in Threads :
             (slot[t].pc = "respond" /\ slot'[t] # slot[t]) =>
                slot'[t].resp.status = 200]_vars

\* after a predict was served, one failed in the detector and one was
\* rejected, and the slot still holds the served image
C10_Witness ==
    /\ lastServed.any
    /\ last_annotated["bytes"] = lastServed.bytes
    /\ \E t, u \in Threads :
          /\ Served(t, "predict", 500) /\ slot[t].called
          /\ Served(u, "predict", 400)


=============================================================================
